---------------------------- MODULE Spec2Model ----------------------------
(* Model of src/task_manager.py: the Task record, the class-level id      *)
(* counter, the TaskManager store (tasks, undo_stack, reminder_queue) and *)
(* the tasks.json file it rewrites after every mutation.                  *)
(*                                                                        *)
(* Python str values are sequences of one-character strings, so that      *)
(* strptime/strftime and the JSON string codec are computed, not assumed. *)
(* Task objects live in `heap`; tasks, undo_stack and reminder_queue hold *)
(* references (indices into heap), as the Python lists hold references.   *)
EXTENDS Integers, Sequences, FiniteSets, TLC

\* ------------------------------------------------------------------ bounds
MaxTasks == 2      \* Task objects one process creates or loads

\* --------------------------------------------------------- string helpers
Digits == <<"0", "1", "2", "3", "4", "5", "6", "7", "8", "9">>

IsDigit(c) == \E i \in 1..10 : Digits[i] = c

DigitVal(c) == (CHOOSE i \in 1..10 : Digits[i] = c) - 1

RECURSIVE NumVal(_)
NumVal(s) == IF s = <<>> THEN 0
             ELSE 10 * NumVal(SubSeq(s, 1, Len(s) - 1)) + DigitVal(s[Len(s)])

RECURSIVE Dec(_)
Dec(n) == IF n < 10 THEN <<Digits[n + 1]>>
          ELSE Dec(n \div 10) \o <<Digits[(n % 10) + 1]>>

RECURSIVE ZeroPad(_, _)
ZeroPad(s, w) == IF Len(s) >= w THEN s ELSE ZeroPad(<<"0">> \o s, w)

RECURSIVE SplitDash(_)
SplitDash(s) ==
    IF \A i \in 1..Len(s) : s[i] # "-" THEN <<s>>
    ELSE LET k == CHOOSE i \in 1..Len(s) :
                     s[i] = "-" /\ \A j \in 1..(i - 1) : s[j] # "-"
         IN <<SubSeq(s, 1, k - 1)>> \o SplitDash(SubSeq(s, k + 1, Len(s)))

Lower(c) == IF c = "A" THEN "a" ELSE IF c = "B" THEN "b" ELSE c

lower(s) == [i \in 1..Len(s) |-> Lower(s[i])]

Contains(needle, hay) ==
    \E i \in 0..(Len(hay) - Len(needle)) :
        SubSeq(hay, i + 1, i + Len(needle)) = needle

\* ------------------------------------------------------------------ dates
\* datetime.date as <<year, month, day>>
IsLeap(y) == (y % 4 = 0) /\ ((y % 100 # 0) \/ (y % 400 = 0))

DaysInMonth(y, m) ==
    IF m = 2 THEN (IF IsLeap(y) THEN 29 ELSE 28)
    ELSE IF m \in {4, 6, 9, 11} THEN 30 ELSE 31

RECURSIVE DaysBeforeMonth(_, _)
DaysBeforeMonth(y, m) ==
    IF m = 1 THEN 0 ELSE DaysBeforeMonth(y, m - 1) + DaysInMonth(y, m - 1)

toordinal(d) ==
    LET y == d[1] - 1
    IN  y * 365 + (y \div 4) - (y \div 100) + (y \div 400)
        + DaysBeforeMonth(d[1], d[2]) + d[3]

\* (a - b).days
DaysBetween(a, b) == toordinal(a) - toordinal(b)

NoDate == <<0, 0, 0>>

\* the directive regexes of strptime: %Y \d\d\d\d, %m 1[0-2]|0[1-9]|[1-9],
\* %d 3[01]|[12]\d|0[1-9]|[1-9]| [1-9]
MatchY(p) == Len(p) = 4 /\ \A i \in 1..4 : IsDigit(p[i])

MatchM(p) ==
    \/ Len(p) = 2 /\ p[1] = "1" /\ p[2] \in {"0", "1", "2"}
    \/ Len(p) = 2 /\ p[1] = "0" /\ IsDigit(p[2]) /\ p[2] # "0"
    \/ Len(p) = 1 /\ IsDigit(p[1]) /\ p[1] # "0"

MatchD(p) ==
    \/ Len(p) = 2 /\ p[1] = "3" /\ p[2] \in {"0", "1"}
    \/ Len(p) = 2 /\ p[1] \in {"1", "2"} /\ IsDigit(p[2])
    \/ Len(p) = 2 /\ p[1] = "0" /\ IsDigit(p[2]) /\ p[2] # "0"
    \/ Len(p) = 1 /\ IsDigit(p[1]) /\ p[1] # "0"
    \/ Len(p) = 2 /\ p[1] = " " /\ IsDigit(p[2]) /\ p[2] # "0"

DayDigits(p) == IF p[1] = " " THEN Tail(p) ELSE p

\* datetime.datetime.strptime(s, "%Y-%m-%d").date(); ok = FALSE is ValueError
strptime(s) ==
    LET parts == SplitDash(s)
    IN  IF Len(parts) # 3 THEN [ok |-> FALSE, date |-> NoDate]
        ELSE IF ~(MatchY(parts[1]) /\ MatchM(parts[2]) /\ MatchD(parts[3]))
        THEN [ok |-> FALSE, date |-> NoDate]
        ELSE LET y == NumVal(parts[1])
                 m == NumVal(parts[2])
                 d == NumVal(DayDigits(parts[3]))
             IN  IF y < 1 \/ d > DaysInMonth(y, m)
                 THEN [ok |-> FALSE, date |-> NoDate]
                 ELSE [ok |-> TRUE, date |-> <<y, m, d>>]

\* date.strftime("%Y-%m-%d"). The C library formats %Y: glibc prints the
\* year without padding, other libraries pad it to four digits.
strftime(d, libc) ==
    (IF libc = "glibc" THEN Dec(d[1]) ELSE ZeroPad(Dec(d[1]), 4))
    \o <<"-">> \o ZeroPad(Dec(d[2]), 2) \o <<"-">> \o ZeroPad(Dec(d[3]), 2)

\* ------------------------------------------------------------ JSON strings
\* json.dump of a str: quoted, with quote and backslash escaped
RECURSIVE Escape(_)
Escape(s) ==
    IF s = <<>> THEN <<>>
    ELSE (IF s[1] \in {"\"", "\\"} THEN <<"\\", s[1]>> ELSE <<s[1]>>)
         \o Escape(Tail(s))

EncodeStr(s) == <<"\"">> \o Escape(s) \o <<"\"">>

RECURSIVE Unescape(_)
Unescape(t) ==
    IF t = <<>> THEN <<>>
    ELSE IF t[1] = "\\" /\ Len(t) >= 2
         THEN <<t[2]>> \o Unescape(SubSeq(t, 3, Len(t)))
         ELSE <<t[1]>> \o Unescape(Tail(t))

\* json.load of a string token
DecodeStr(t) == Unescape(SubSeq(t, 2, Len(t) - 1))

\* ------------------------------------------------------------- Task class
Pending == <<"P", "e", "n", "d", "i", "n", "g">>
Completed == <<"C", "o", "m", "p", "l", "e", "t", "e", "d">>
High == <<"H", "i", "g", "h">>
Medium == <<"M", "e", "d", "i", "u", "m">>
Low == <<"L", "o", "w">>

\* Task.__init__: a falsy task_id (None, modelled as 0) takes the class
\* counter and advances it. Result: the object and the counter afterwards.
TaskInit(counter, title, description, priority, due_date, status, task_id) ==
    LET newid == IF task_id # 0 THEN task_id ELSE counter
    IN  [task |-> [id |-> newid, title |-> title,
                   description |-> description, priority |-> priority,
                   due_date |-> due_date, status |-> status],
         counter |-> IF task_id # 0 THEN counter ELSE counter + 1]

\* (mutant) mark_complete that flips the status
mark_complete_Toggle(t) ==
    [t EXCEPT !.status = IF @ = Pending THEN Completed ELSE Pending]

\* Task.mark_complete
mark_complete(t) == [t EXCEPT !.status = Completed]

\* Task.to_dict followed by json.dump of the dict
to_dict(t, libc) ==
    [id |-> t.id,
     title |-> EncodeStr(t.title),
     description |-> EncodeStr(t.description),
     priority |-> EncodeStr(t.priority),
     due_date |-> EncodeStr(strftime(t.due_date, libc)),
     status |-> EncodeStr(t.status)]

TaskKeys == {"id", "title", "description", "priority", "due_date", "status"}

NoTask == [id |-> 0, title |-> <<>>, description |-> <<>>,
           priority |-> <<>>, due_date |-> NoDate, status |-> <<>>]

\* (mutant) from_dict that leaves status at the default of Task.__init__
from_dict_DefaultStatus(data, counter) ==
    IF "due_date" \notin DOMAIN data
    THEN [err |-> "KeyError", task |-> NoTask, counter |-> counter]
    ELSE IF ~strptime(DecodeStr(data.due_date)).ok
    THEN [err |-> "ValueError", task |-> NoTask, counter |-> counter]
    ELSE IF ~(TaskKeys \subseteq DOMAIN data)
    THEN [err |-> "KeyError", task |-> NoTask, counter |-> counter]
    ELSE [err |-> "none",
          task |-> [id |-> data.id, title |-> DecodeStr(data.title),
                    description |-> DecodeStr(data.description),
                    priority |-> DecodeStr(data.priority),
                    due_date |-> strptime(DecodeStr(data.due_date)).date,
                    status |-> Pending],
          counter |-> counter]

\* Task.from_dict on one parsed JSON object. A missing key is KeyError, an
\* unparsable due_date is ValueError; due_date is looked at first.
from_dict(data, counter) ==
    IF "due_date" \notin DOMAIN data
    THEN [err |-> "KeyError", task |-> NoTask, counter |-> counter]
    ELSE LET p == strptime(DecodeStr(data.due_date))
         IN  IF ~p.ok
             THEN [err |-> "ValueError", task |-> NoTask, counter |-> counter]
             ELSE IF ~(TaskKeys \subseteq DOMAIN data)
             THEN [err |-> "KeyError", task |-> NoTask, counter |-> counter]
             ELSE LET r == TaskInit(counter, DecodeStr(data.title),
                                    DecodeStr(data.description),
                                    DecodeStr(data.priority), p.date,
                                    DecodeStr(data.status), data.id)
                  IN  [err |-> "none", task |-> r.task, counter |-> r.counter]

\* ------------------------------------------------------------- persistence
\* tasks.json: kind "missing" (no file), "garbage" (not JSON: empty or
\* truncated text), "number" (valid JSON that is not a list), "array" (a
\* list of JSON objects, in items)
NoFile == [kind |-> "missing", items |-> <<>>]
Garbage == [kind |-> "garbage", items |-> <<>>]

\* the text save_tasks writes for a sequence of Task objects
dump(ts, libc) ==
    [kind |-> "array", items |-> [i \in 1..Len(ts) |-> to_dict(ts[i], libc)]]

\* [Task.from_dict(data) for data in tasks_data]: the first failing
\* from_dict ends the comprehension with its exception
Prepend(r, rest) ==
    [err |-> rest.err,
     tasks |-> IF rest.err = "none" THEN <<r.task>> \o rest.tasks ELSE <<>>,
     counter |-> rest.counter]

RECURSIVE FromDicts(_, _)
Continue(r, items) ==
    IF r.err # "none" THEN [err |-> r.err, tasks |-> <<>>, counter |-> r.counter]
    ELSE Prepend(r, FromDicts(items, r.counter))

FromDicts(items, counter) ==
    IF items = <<>> THEN [err |-> "none", tasks |-> <<>>, counter |-> counter]
    ELSE Continue(from_dict(items[1], counter), Tail(items))

MaxIdOf(ts) == CHOOSE m \in {ts[i].id : i \in 1..Len(ts)} :
                   \A i \in 1..Len(ts) : ts[i].id <= m

\* (mutant) load_tasks that leaves Task.task_counter at 1
Reseed_Forgotten(r) == r

\* if self.tasks: Task.task_counter = max(task.id for task in self.tasks) + 1
Reseed(r) ==
    IF r.err # "none" THEN r
    ELSE [err |-> "none", tasks |-> r.tasks,
          counter |-> IF r.tasks # <<>> THEN MaxIdOf(r.tasks) + 1
                      ELSE r.counter]

\* TaskManager.load_tasks in a fresh process (Task.task_counter = 1):
\* err is the exception that leaves load_tasks, "none" if it returns
load_tasks(f) ==
    IF f.kind = "missing" THEN [err |-> "none", tasks |-> <<>>, counter |-> 1]
    ELSE IF f.kind = "garbage"
    THEN [err |-> "none", tasks |-> <<>>, counter |-> 1]
    ELSE IF f.kind = "number"
    THEN [err |-> "TypeError", tasks |-> <<>>, counter |-> 1]
    ELSE Reseed(FromDicts(f.items, 1))

\* ------------------------------------------------------------------ inputs
\* datetime.date.today(): the day of the run
today == <<2029, 12, 30>>

Str_Ab == <<"A", "b">>
Str_x == <<"x">>
Str_quote == <<"b", "\"">>
Str_back == <<"c", "\\">>
Str_B == <<"B">>
Urgent == <<"U", "r", "g", "e", "n", "t">>
Date_near == <<"2", "0", "3", "0", "-", "0", "1", "-", "0", "2">>
Date_short == <<"2", "0", "3", "0", "-", "1", "-", "3">>
Date_old == <<"0", "9", "9", "9", "-", "0", "1", "-", "0", "1">>
Date_past == <<"2", "0", "2", "9", "-", "1", "2", "-", "2", "9">>
Date_feb30 == <<"2", "0", "3", "0", "-", "0", "2", "-", "3", "0">>
Date_slash == <<"2", "0", "3", "0", "/", "0", "1", "/", "0", "1">>

\* what the user types at menu choice 1: title, description, priority, date
Inputs ==
    << [title |-> Str_Ab, description |-> Str_x, priority |-> High,
        due_date |-> Date_near],
       [title |-> Str_quote, description |-> <<>>, priority |-> Urgent,
        due_date |-> Date_short],
       [title |-> Str_x, description |-> Str_x, priority |-> High,
        due_date |-> Date_feb30],
       [title |-> Str_x, description |-> Str_x, priority |-> Low,
        due_date |-> Date_slash],
       [title |-> Str_back, description |-> Str_B, priority |-> Low,
        due_date |-> Date_old],
       [title |-> Str_x, description |-> Str_Ab, priority |-> Medium,
        due_date |-> Date_near] >>

\* the inputs explored together with every other operation
MainInputs == 1..4

\* the inputs explored by the sorting and the persistence specifications
AllInputs == 1..Len(Inputs)

\* what the user types at menu choice 7
Keywords == << <<>>, <<"a">>, <<"Z">> >>

\* the ids the user types at menu choices 3 and 4
TaskIds == 1..(MaxTasks + 2)

\* a file an earlier run left: one completed task, id 2, due 2030-01-02
StoredTask == [id |-> 2, title |-> EncodeStr(Str_B),
               description |-> EncodeStr(Str_x),
               priority |-> EncodeStr(Medium),
               due_date |-> EncodeStr(Date_near),
               status |-> EncodeStr(Completed)]

\* another: two pending tasks, id 3 due 2030-01-02 before id 1 due 2029-12-29
StoredPair ==
    << [StoredTask EXCEPT !.id = 3, !.status = EncodeStr(Pending)],
       [StoredTask EXCEPT !.id = 1, !.status = EncodeStr(Pending),
                          !.priority = EncodeStr(High),
                          !.due_date = EncodeStr(Date_past)] >>

\* tasks.json as the first process of the run finds it
InitialFiles ==
    { NoFile, Garbage,
      [kind |-> "number", items |-> <<>>],
      [kind |-> "array", items |-> <<>>],
      [kind |-> "array", items |-> <<StoredTask>>],
      [kind |-> "array", items |-> StoredPair],
      [kind |-> "array",
       items |-> <<[StoredTask EXCEPT !.due_date = EncodeStr(Date_feb30)]>>],
      [kind |-> "array",
       items |-> <<[k \in TaskKeys \ {"status"} |-> StoredTask[k]]>>] }

\* the outcomes of open(FILE_NAME, "w") and json.dump in save_tasks
IOOutcomes == {"ok", "open_fails", "dump_fails"}

\* ------------------------------------------------------------------- state
VARIABLES heap,            \* the Task objects of this process, by reference
          loaded,          \* how many of them load_tasks created
          tasks,           \* TaskManager.tasks: references
          undo_stack,      \* TaskManager.undo_stack: references, top last
          reminder_queue,  \* TaskManager.reminder_queue: references
          task_counter,    \* Task.task_counter
          file,            \* tasks.json
          libc,            \* the C library behind strftime
          raised,          \* the exception that ended the process, or "none"
          hist             \* the last call that reports: op, res, and pre
                           \* (the tasks before a successful delete_task)

vars == <<heap, loaded, tasks, undo_stack, reminder_queue, task_counter, file,
          libc, raised, hist>>

\* the Task objects a list of references stands for
Objs(refs) == [i \in 1..Len(refs) |-> heap[refs[i]]]

Range(s) == {s[i] : i \in 1..Len(s)}

\* ----------------------------------------------------------------- sorting
\* list.sort / sorted with a key: stable, ascending. key maps each element
\* to an integer.
\* (mutant) an insertion that goes before the elements of equal key
RECURSIVE InsertByKey_BeforeEqual(_, _, _)
InsertByKey_BeforeEqual(x, s, key) ==
    IF s = <<>> THEN <<x>>
    ELSE IF key[x] <= key[s[1]] THEN <<x>> \o s
    ELSE <<s[1]>> \o InsertByKey_BeforeEqual(x, Tail(s), key)

RECURSIVE InsertByKey(_, _, _)
InsertByKey(x, s, key) ==
    IF s = <<>> THEN <<x>>
    ELSE IF key[x] < key[s[1]] THEN <<x>> \o s
    ELSE <<s[1]>> \o InsertByKey(x, Tail(s), key)

RECURSIVE SortByKey(_, _)
SortByKey(s, key) ==
    IF s = <<>> THEN <<>>
    ELSE InsertByKey(s[Len(s)], SortByKey(SubSeq(s, 1, Len(s) - 1), key), key)

\* lambda t: t.due_date
DueKey(h) == [r \in 1..Len(h) |-> toordinal(h[r].due_date)]

\* (mutant) the three known priorities ranked in alphabetical order
priority_order_Alphabetical(p) ==
    IF p = High THEN 1 ELSE IF p = Low THEN 2 ELSE IF p = Medium THEN 3 ELSE 4

\* priority_order.get(t.priority, 4)
priority_order(p) ==
    IF p = High THEN 1 ELSE IF p = Medium THEN 2 ELSE IF p = Low THEN 3 ELSE 4

PriorityKey(h) == [r \in 1..Len(h) |-> priority_order(h[r].priority)]

RECURSIVE SelectSeq2(_, _)
SelectSeq2(s, keep) ==
    IF s = <<>> THEN <<>>
    ELSE (IF s[1] \in keep THEN <<s[1]>> ELSE <<>>)
         \o SelectSeq2(Tail(s), keep)

\* ------------------------------------------------------------- TaskManager
\* (mutant) due soon only when strictly less than 3 days away
DueSoon_Strict(due) == DaysBetween(due, today) < 3

\* the due-soon test of add_task and build_reminder_queue
DueSoon(due) == DaysBetween(due, today) <= 3

\* (mutant) build_reminder_queue that walks tasks in list order
build_reminder_queue_Unsorted(h, ts) ==
    SelectSeq2(ts, {r \in 1..Len(h) : DueSoon(h[r].due_date)
                                      /\ h[r].status = Pending})

\* TaskManager.build_reminder_queue over heap h and list ts
build_reminder_queue(h, ts) ==
    SelectSeq2(SortByKey(ts, DueKey(h)),
               {r \in 1..Len(h) : DueSoon(h[r].due_date)
                                  /\ h[r].status = Pending})

\* TaskManager.save_tasks: the file afterwards
save_tasks(h, ts, io, old) ==
    IF io = "ok" THEN dump([i \in 1..Len(ts) |-> h[ts[i]]], libc)
    ELSE IF io = "open_fails" THEN old
    ELSE Garbage

\* no caller in the program catches OSError: a failed write unwinds through
\* the operation and main(), and the process ends with the store as it is
Unwinds(io) == IF io = "ok" THEN "none" ELSE "OSError"

Call(op, res) == [op |-> op, res |-> res, pre |-> <<>>]

Outcome(io) == IF io = "ok" THEN "ok" ELSE "OSError"

\* the references 1..n of n loaded Task objects, in file order
Refs(n) == [i \in 1..n |-> i]

\* TaskManager.__init__ in a fresh process, l being what load_tasks did:
\* the store it leaves
Constructed(l, op) ==
    [raised |-> l.err,
     heap |-> l.tasks,
     loaded |-> Len(l.tasks),
     tasks |-> Refs(Len(l.tasks)),
     undo_stack |-> <<>>,
     reminder_queue |-> build_reminder_queue(l.tasks, Refs(Len(l.tasks))),
     task_counter |-> l.counter,
     hist |-> Call(op, IF l.err = "none" THEN "ok" ELSE l.err)]

StoreIs(c) ==
    /\ raised = c.raised
    /\ heap = c.heap
    /\ loaded = c.loaded
    /\ tasks = c.tasks
    /\ undo_stack = c.undo_stack
    /\ reminder_queue = c.reminder_queue
    /\ task_counter = c.task_counter
    /\ hist = c.hist

StoreBecomes(c) ==
    /\ raised' = c.raised
    /\ heap' = c.heap
    /\ loaded' = c.loaded
    /\ tasks' = c.tasks
    /\ undo_stack' = c.undo_stack
    /\ reminder_queue' = c.reminder_queue
    /\ task_counter' = c.task_counter
    /\ hist' = c.hist

\* the C libraries strftime may run on; they differ on years below 1000
Libcs == {"glibc", "padding"}

\* the first process of the run, on one of the C libraries in libcs
FirstProcess(libcs) ==
    /\ file \in InitialFiles
    /\ libc \in libcs
    /\ StoreIs(Constructed(load_tasks(file), "init"))

\* the first process of the run, on CPython over glibc
Init == FirstProcess({"glibc"})

\* the first process of the run, on either C library
InitAnyLibc == FirstProcess(Libcs)

\* the process ends and a new one starts: Task.task_counter is 1 again, the
\* lists are rebuilt from tasks.json
Restart ==
    /\ UNCHANGED <<file, libc>>
    /\ StoreBecomes(Constructed(load_tasks(file), "restart"))

\* (mutant) a refused call that has already taken an id from the counter
Reject_TakesId(op, res) ==
    /\ hist' = Call(op, res)
    /\ task_counter' = task_counter + 1
    /\ UNCHANGED <<heap, loaded, tasks, undo_stack, reminder_queue, file,
                   libc, raised>>

\* the paths that print a warning and return: nothing but the report changes
Reject(op, res) ==
    /\ hist' = Call(op, res)
    /\ UNCHANGED <<heap, loaded, tasks, undo_stack, reminder_queue,
                   task_counter, file, libc, raised>>

\* TaskManager.add_task with the n-th input. A process makes at most
\* MaxTasks objects, and ids stop at MaxTasks + 1, inside TaskIds.
add_task(n, io) ==
    /\ raised = "none"
    /\ LET inp == Inputs[n]
           p == strptime(inp.due_date)
       IN  IF ~p.ok
           THEN /\ io = "ok"
                /\ Reject("add_task", "InvalidDateFormat")
           ELSE /\ Len(heap) < MaxTasks
                /\ task_counter <= MaxTasks + 1
                /\ LET r == TaskInit(task_counter, inp.title, inp.description,
                                     inp.priority, p.date, Pending, 0)
                       ref == Len(heap) + 1
                   IN  /\ heap' = Append(heap, r.task)
                       /\ task_counter' = r.counter
                       /\ tasks' = Append(tasks, ref)
                       /\ file' = save_tasks(heap', tasks', io, file)
                       /\ reminder_queue' =
                            IF io = "ok" /\ DueSoon(p.date)
                            THEN Append(reminder_queue, ref)
                            ELSE reminder_queue
                       /\ hist' = Call("add_task", Outcome(io))
                       /\ raised' = Unwinds(io)
                       /\ UNCHANGED <<loaded, undo_stack, libc>>

\* TaskManager.view_tasks: prints, reports nothing the store keeps
view_tasks ==
    /\ raised = "none"
    /\ UNCHANGED vars

\* for task in self.tasks: if task.id == task_id: the first match
HasId(id) == \E i \in 1..Len(tasks) : heap[tasks[i]].id = id

FirstWithId(id) ==
    tasks[CHOOSE i \in 1..Len(tasks) :
              /\ heap[tasks[i]].id = id
              /\ \A j \in 1..(i - 1) : heap[tasks[j]].id # id]

\* (mutant) a remove that drops nothing
RemoveFirst_Nothing(s, x) == s

\* list.remove(x): drops the first element equal to x
RemoveFirst(s, x) ==
    LET k == CHOOSE i \in 1..Len(s) : s[i] = x /\ \A j \in 1..(i - 1) : s[j] # x
    IN  SubSeq(s, 1, k - 1) \o SubSeq(s, k + 1, Len(s))

\* (mutant) mark_task_complete that does not call save_tasks
mark_task_complete_NoSave(id, io) ==
    /\ raised = "none"
    /\ IF ~HasId(id)
       THEN /\ io = "ok"
            /\ Reject("mark_task_complete", "NotFound")
       ELSE /\ heap' = [heap EXCEPT ![FirstWithId(id)] = mark_complete(@)]
            /\ hist' = Call("mark_task_complete", Outcome(io))
            /\ UNCHANGED <<loaded, tasks, undo_stack, reminder_queue,
                           task_counter, file, libc, raised>>

\* TaskManager.mark_task_complete
mark_task_complete(id, io) ==
    /\ raised = "none"
    /\ IF ~HasId(id)
       THEN /\ io = "ok"
            /\ Reject("mark_task_complete", "NotFound")
       ELSE LET r == FirstWithId(id)
            IN  /\ heap' = [heap EXCEPT ![r] = mark_complete(heap[r])]
                /\ file' = save_tasks(heap', tasks, io, file)
                /\ hist' = Call("mark_task_complete", Outcome(io))
                /\ raised' = Unwinds(io)
                /\ UNCHANGED <<loaded, tasks, undo_stack, reminder_queue,
                               task_counter, libc>>

\* (mutant) delete_task that puts the task under the undo stack
delete_task_PushesUnder(id, io) ==
    /\ raised = "none"
    /\ IF ~HasId(id)
       THEN /\ io = "ok"
            /\ Reject("delete_task", "NotFound")
       ELSE /\ undo_stack' = <<FirstWithId(id)>> \o undo_stack
            /\ tasks' = RemoveFirst(tasks, FirstWithId(id))
            /\ file' = save_tasks(heap, tasks', io, file)
            /\ hist' = [op |-> "delete_task", res |-> Outcome(io),
                        pre |-> IF io = "ok" THEN Objs(tasks) ELSE <<>>]
            /\ raised' = Unwinds(io)
            /\ UNCHANGED <<heap, loaded, reminder_queue, task_counter,
                           libc>>

\* TaskManager.delete_task
delete_task(id, io) ==
    /\ raised = "none"
    /\ IF ~HasId(id)
       THEN /\ io = "ok"
            /\ Reject("delete_task", "NotFound")
       ELSE LET r == FirstWithId(id)
            IN  /\ undo_stack' = Append(undo_stack, r)
                /\ tasks' = RemoveFirst(tasks, r)
                /\ file' = save_tasks(heap, tasks', io, file)
                /\ hist' = [op |-> "delete_task", res |-> Outcome(io),
                            pre |-> IF io = "ok" THEN Objs(tasks) ELSE <<>>]
                /\ raised' = Unwinds(io)
                /\ UNCHANGED <<heap, loaded, reminder_queue, task_counter,
                               libc>>

\* TaskManager.sort_by_due_date
sort_by_due_date ==
    /\ raised = "none"
    /\ tasks' = SortByKey(tasks, DueKey(heap))
    /\ hist' = Call("sort_by_due_date", "ok")
    /\ UNCHANGED <<heap, loaded, undo_stack, reminder_queue, task_counter,
                   file, libc, raised>>

\* (mutant) sort_by_priority that writes the new order to tasks.json
sort_by_priority_Saves ==
    /\ raised = "none"
    /\ tasks' = SortByKey(tasks, PriorityKey(heap))
    /\ file' = save_tasks(heap, tasks', "ok", file)
    /\ hist' = Call("sort_by_priority", "ok")
    /\ UNCHANGED <<heap, loaded, undo_stack, reminder_queue, task_counter,
                   libc, raised>>

\* TaskManager.sort_by_priority
sort_by_priority ==
    /\ raised = "none"
    /\ tasks' = SortByKey(tasks, PriorityKey(heap))
    /\ hist' = Call("sort_by_priority", "ok")
    /\ UNCHANGED <<heap, loaded, undo_stack, reminder_queue, task_counter,
                   file, libc, raised>>

\* the list comprehension of search_tasks
search_results(keyword) ==
    SelectSeq2(tasks,
               {r \in 1..Len(heap) :
                    \/ Contains(lower(keyword), lower(heap[r].title))
                    \/ Contains(lower(keyword), lower(heap[r].description))})

\* TaskManager.search_tasks: prints search_results, keeps nothing
search_tasks(k) ==
    /\ raised = "none"
    /\ UNCHANGED vars
    /\ Len(search_results(Keywords[k])) <= Len(tasks)

\* (mutant) undo_delete that restores the oldest deletion, not the latest
undo_delete_Oldest(io) ==
    /\ raised = "none"
    /\ IF undo_stack = <<>>
       THEN /\ io = "ok"
            /\ Reject("undo_delete", "NothingToUndo")
       ELSE /\ undo_stack' = Tail(undo_stack)
            /\ tasks' = Append(tasks, undo_stack[1])
            /\ file' = save_tasks(heap, tasks', io, file)
            /\ hist' = [op |-> "undo_delete", res |-> Outcome(io),
                        pre |-> IF hist.op = "delete_task" /\ io = "ok"
                                THEN hist.pre ELSE <<>>]
            /\ raised' = Unwinds(io)
            /\ UNCHANGED <<heap, loaded, reminder_queue, task_counter, libc>>

\* TaskManager.undo_delete
undo_delete(io) ==
    /\ raised = "none"
    /\ IF undo_stack = <<>>
       THEN /\ io = "ok"
            /\ Reject("undo_delete", "NothingToUndo")
       ELSE LET last_deleted == undo_stack[Len(undo_stack)]
            IN  /\ undo_stack' = SubSeq(undo_stack, 1, Len(undo_stack) - 1)
                /\ tasks' = Append(tasks, last_deleted)
                /\ file' = save_tasks(heap, tasks', io, file)
                /\ hist' = [op |-> "undo_delete", res |-> Outcome(io),
                            pre |-> IF hist.op = "delete_task" /\ io = "ok"
                                    THEN hist.pre ELSE <<>>]
                /\ raised' = Unwinds(io)
                /\ UNCHANGED <<heap, loaded, reminder_queue, task_counter,
                               libc>>

\* (mutant) show_next_reminder that takes the reminder enqueued last
show_next_reminder_PopsBack ==
    /\ raised = "none"
    /\ IF reminder_queue = <<>>
       THEN /\ hist' = Call("show_next_reminder", "NoReminders")
            /\ UNCHANGED reminder_queue
       ELSE /\ reminder_queue' =
                 SubSeq(reminder_queue, 1, Len(reminder_queue) - 1)
            /\ hist' = Call("show_next_reminder", "ok")
    /\ UNCHANGED <<heap, loaded, tasks, undo_stack, task_counter, file, libc,
                   raised>>

\* TaskManager.show_next_reminder
show_next_reminder ==
    /\ raised = "none"
    /\ IF reminder_queue = <<>>
       THEN /\ hist' = Call("show_next_reminder", "NoReminders")
            /\ UNCHANGED reminder_queue
       ELSE /\ reminder_queue' = Tail(reminder_queue)
            /\ hist' = Call("show_next_reminder", "ok")
    /\ UNCHANGED <<heap, loaded, tasks, undo_stack, task_counter, file, libc,
                   raised>>

\* main(): one menu choice after another, in one process, on a disk that
\* takes every write. Every date of MainInputs and InitialFiles has a
\* four-digit year, which every C library formats alike.
Next ==
    \/ \E n \in MainInputs : add_task(n, "ok")
    \/ view_tasks
    \/ \E id \in TaskIds : mark_task_complete(id, "ok")
    \/ \E id \in TaskIds : delete_task(id, "ok")
    \/ sort_by_due_date
    \/ sort_by_priority
    \/ \E k \in 1..Len(Keywords) : search_tasks(k)
    \/ undo_delete("ok")
    \/ show_next_reminder

Spec == Init /\ [][Next]_vars

\* adding and sorting, over every input and either C library
NextSort ==
    \/ \E n \in AllInputs : add_task(n, "ok")
    \/ sort_by_due_date
    \/ sort_by_priority

SpecSort == InitAnyLibc /\ [][NextSort]_vars

\* one process after another on the same tasks.json, over every input and
\* either C library
NextReload ==
    \/ \E n \in AllInputs : add_task(n, "ok")
    \/ \E id \in TaskIds : mark_task_complete(id, "ok")
    \/ sort_by_priority
    \/ Restart

SpecReload == InitAnyLibc /\ [][NextReload]_vars

\* the mutating menu choices on a disk where open(FILE_NAME, "w") or
\* json.dump may fail
NextIO ==
    \/ \E n \in MainInputs : \E io \in IOOutcomes : add_task(n, io)
    \/ \E id \in TaskIds : \E io \in IOOutcomes : mark_task_complete(id, io)
    \/ \E id \in TaskIds : \E io \in IOOutcomes : delete_task(id, io)
    \/ \E io \in IOOutcomes : undo_delete(io)

SpecIO == Init /\ [][NextIO]_vars

\* the life of the tasks: the calls that change the store (those that find
\* their task, their deletion, their reminder), and the end of one process
\* and the start of the next. Every new task is made from the second
\* input: what becomes of a status does not depend on the other fields.
NextLife ==
    \/ add_task(2, "ok")
    \/ \E id \in TaskIds : HasId(id) /\ mark_task_complete(id, "ok")
    \/ \E id \in TaskIds : HasId(id) /\ delete_task(id, "ok")
    \/ sort_by_priority
    \/ undo_stack # <<>> /\ undo_delete("ok")
    \/ reminder_queue # <<>> /\ show_next_reminder
    \/ Restart

SpecLife == Init /\ [][NextLife]_vars

\* ------------------------------------------------------------------ claims
\* C1: heap keeps every Task object the process loaded or created, whether
\* it is now in tasks or in undo_stack. No two of them share an id, every
\* created one (after the loaded ones) has an id above all ids before it,
\* and the next id to hand out is above them all.
C1_FreshIds ==
    /\ \A i, j \in 1..Len(heap) : i # j => heap[i].id # heap[j].id
    /\ \A j \in (loaded + 1)..Len(heap) :
           \A i \in 1..(j - 1) : heap[i].id < heap[j].id
    /\ raised = "none" => \A i \in 1..Len(heap) : heap[i].id < task_counter

\* a task was loaded, another created after it, and one of them deleted
C1_Witness ==
    /\ loaded >= 1
    /\ Len(heap) > loaded
    /\ undo_stack # <<>>
    /\ hist.op = "delete_task"

\* the call is add_task of the n-th input and its date parses
AddSucceeds(n) == add_task(n, "ok") /\ strptime(Inputs[n].due_date).ok

\* C2: a successful add_task appends exactly one new Pending task with the
\* given title, description, priority and parsed date at the end of tasks,
\* leaves the existing tasks and undo_stack as they were, and appends the
\* new task to the back of reminder_queue iff due_date - today <= 3 days.
C2_AddAppendsOne ==
    [][\A n \in MainInputs :
         (hist'.op = "add_task" /\ AddSucceeds(n)) =>
           /\ Len(heap') = Len(heap) + 1
           /\ \A r \in 1..Len(heap) : heap'[r] = heap[r]
           /\ tasks' = Append(tasks, Len(heap'))
           /\ heap'[Len(heap')].title = Inputs[n].title
           /\ heap'[Len(heap')].description = Inputs[n].description
           /\ heap'[Len(heap')].priority = Inputs[n].priority
           /\ heap'[Len(heap')].due_date = strptime(Inputs[n].due_date).date
           /\ heap'[Len(heap')].status = Pending
           /\ undo_stack' = undo_stack
           /\ reminder_queue' =
                IF toordinal(heap'[Len(heap')].due_date) - toordinal(today) <= 3
                THEN Append(reminder_queue, Len(heap'))
                ELSE reminder_queue]_vars

\* two tasks were added: the first is due in 4 days and not queued, the
\* second is due in exactly 3 days and queued
C2_Witness ==
    /\ hist = Call("add_task", "ok")
    /\ loaded = 0
    /\ tasks = <<1, 2>>
    /\ reminder_queue = <<2>>
    /\ DaysBetween(heap[1].due_date, today) = 4
    /\ DaysBetween(heap[2].due_date, today) = 3

\* C3: delete_task(id) immediately followed by undo_delete() brings back a
\* task with the fields it had before the deletion, and tasks holds the
\* same tasks as before the deletion (hist.pre), in whatever order.
C3_DeleteUndoRestores ==
    [][(hist.op = "delete_task" /\ hist.res = "ok" /\ undo_delete("ok")) =>
         /\ Len(tasks') = Len(hist.pre)
         /\ Range(Objs(tasks)') = Range(hist.pre)
         /\ Objs(tasks)'[Len(tasks')] \notin Range(Objs(tasks))
         /\ heap' = heap]_vars

\* the first of two tasks was deleted and restored at once: it came back
\* behind the other
C3_Witness ==
    /\ hist.op = "undo_delete"
    /\ hist.res = "ok"
    /\ Len(hist.pre) = 2
    /\ Objs(tasks) = <<hist.pre[2], hist.pre[1]>>
    /\ Range(Objs(tasks)) = Range(hist.pre)

\* load_tasks result l is the task sequence ts, nothing raised
LoadsAs(l, ts) == l.err = "none" /\ l.tasks = ts

\* C4: round trip: for the tasks T of any running store, load_tasks of
\* what save_tasks writes for T yields T again: same fields, same order.
C4_RoundTrip ==
    raised = "none" => LoadsAs(load_tasks(dump(Objs(tasks), libc)), Objs(tasks))

\* a mutating call that goes through: add_task with a parsable date,
\* mark_task_complete or delete_task of a present id, undo_delete of a
\* non-empty stack
MutationSucceeds ==
    \/ hist'.op = "add_task" /\ \E n \in MainInputs : AddSucceeds(n)
    \/ /\ hist'.op = "mark_task_complete"
       /\ \E id \in TaskIds : HasId(id) /\ mark_task_complete(id, "ok")
    \/ /\ hist'.op = "delete_task"
       /\ \E id \in TaskIds : HasId(id) /\ delete_task(id, "ok")
    \/ hist'.op = "undo_delete" /\ undo_stack # <<>> /\ undo_delete("ok")

\* C5: after every successful mutating call tasks.json holds exactly the
\* records of the in-memory tasks as of the end of the call, in the order
\* of tasks, whatever it held before.
C5_FileFollowsMemory ==
    [][(hist'.res = "ok" /\ MutationSucceeds) =>
         /\ file'.kind = "array"
         /\ Len(file'.items) = Len(tasks')
         /\ \A i \in 1..Len(tasks') :
                file'.items[i] = to_dict(heap'[tasks'[i]], libc)]_vars

\* two tasks stand in another order than their ids and the first was
\* completed: the file has them in that order, with the new status
C5_Witness ==
    /\ hist = Call("mark_task_complete", "ok")
    /\ Len(tasks) = 2
    /\ heap[tasks[1]].id > heap[tasks[2]].id
    /\ Len(file.items) = 2
    /\ file.items[1].id = heap[tasks[1]].id
    /\ file.items[1].status = EncodeStr(Completed)

\* a call that fails: add_task with an unparsable date, mark_task_complete
\* or delete_task of an absent id, undo_delete of an empty stack
CallFails ==
    \/ /\ hist'.op = "add_task"
       /\ \E n \in MainInputs :
            ~strptime(Inputs[n].due_date).ok /\ add_task(n, "ok")
    \/ /\ hist'.op = "mark_task_complete"
       /\ \E id \in TaskIds : ~HasId(id) /\ mark_task_complete(id, "ok")
    \/ /\ hist'.op = "delete_task"
       /\ \E id \in TaskIds : ~HasId(id) /\ delete_task(id, "ok")
    \/ hist'.op = "undo_delete" /\ undo_stack = <<>> /\ undo_delete("ok")

\* C6: a failing call (InvalidDateFormat, NotFound, NothingToUndo) leaves
\* tasks, the Task objects, undo_stack, reminder_queue, the id counter and
\* tasks.json exactly as they were.
C6_FailureChangesNothing ==
    [][(hist'.res \in {"InvalidDateFormat", "NotFound", "NothingToUndo"}
        /\ CallFails) =>
         UNCHANGED <<heap, tasks, undo_stack, reminder_queue, task_counter,
                     file>>]_vars

\* add_task was refused for its date in a store that holds a task, a
\* deleted task and a queued reminder
C6_Witness ==
    /\ hist = Call("add_task", "InvalidDateFormat")
    /\ tasks # <<>>
    /\ undo_stack # <<>>
    /\ reminder_queue # <<>>

\* tasks.json is a list of task records, each with every key and a date
\* that parses
WellFormed(f) ==
    /\ f.kind = "array"
    /\ \A i \in 1..Len(f.items) :
           /\ TaskKeys \subseteq DOMAIN f.items[i]
           /\ strptime(DecodeStr(f.items[i].due_date)).ok

\* C7: creating the store never raises, and when tasks.json is missing or
\* is not a well-formed list of task records the store starts empty.
C7_MalformedLoadsEmpty ==
    hist.op = "init" =>
        /\ raised = "none"
        /\ ~WellFormed(file) => tasks = <<>>

Count(s, x) == Cardinality({i \in 1..Len(s) : s[i] = x})

IsPermutation(a, b) ==
    /\ Len(a) = Len(b)
    /\ \A x \in Range(a) \cup Range(b) : Count(a, x) = Count(b, x)

SortNames == {"sort_by_due_date", "sort_by_priority"}

\* C8: view_tasks and search_tasks leave tasks.json, the Task objects,
\* tasks, undo_stack and reminder_queue alone; the sorts leave tasks.json,
\* the Task objects, undo_stack and reminder_queue alone and only reorder
\* tasks.
C8_ReadsNeverWrite ==
    [][/\ (view_tasks \/ \E k \in 1..Len(Keywords) : search_tasks(k)) =>
            UNCHANGED <<file, heap, tasks, undo_stack, reminder_queue>>
       /\ (hist'.op \in SortNames /\ (sort_by_due_date \/ sort_by_priority)) =>
            /\ file' = file
            /\ UNCHANGED <<heap, undo_stack, reminder_queue, task_counter>>
            /\ IsPermutation(tasks, tasks')]_vars

\* sort_by_priority has exchanged two tasks and tasks.json still lists
\* them in the order of the last write
C8_Witness ==
    /\ hist = Call("sort_by_priority", "ok")
    /\ Len(tasks) = 2
    /\ Len(file.items) = 2
    /\ file.items[1].id = heap[tasks[2]].id
    /\ file.items[2].id = heap[tasks[1]].id

\* C9: mark_task_complete of a present id succeeds and leaves the task
\* Completed; a second mark_task_complete of an id whose task the call
\* before completed changes nothing: the Task objects, tasks, undo_stack,
\* reminder_queue and tasks.json are as after the first call.
C9_MarkIdempotent ==
    [][\A id \in TaskIds :
         (hist'.op = "mark_task_complete" /\ HasId(id)
          /\ mark_task_complete(id, "ok")) =>
           /\ hist'.res = "ok"
           /\ heap'[FirstWithId(id)].status = Completed
           /\ (hist = Call("mark_task_complete", "ok")
               /\ heap[FirstWithId(id)].status = Completed) =>
                 UNCHANGED <<heap, tasks, undo_stack, reminder_queue, file,
                             task_counter>>]_vars

\* a queued task was completed, next to one still pending
C9_Witness ==
    /\ hist = Call("mark_task_complete", "ok")
    /\ Len(tasks) = 2
    /\ heap[tasks[1]].status = Completed
    /\ heap[tasks[2]].status = Pending
    /\ tasks[1] \in Range(reminder_queue)
    /\ file.items[1].status = EncodeStr(Completed)

\* the rank the priority sort goes by
Rank(p) ==
    CASE p = High -> 1 [] p = Medium -> 2 [] p = Low -> 3 [] OTHER -> 4

\* date a is earlier than date b
Earlier(a, b) ==
    \/ a[1] < b[1]
    \/ a[1] = b[1] /\ a[2] < b[2]
    \/ a[1] = b[1] /\ a[2] = b[2] /\ a[3] < b[3]

Pos(s, x) == CHOOSE i \in 1..Len(s) : s[i] = x

\* new is old rearranged so that no element stands before one that goes
\* Before it, elements of equal key in the order they had in old
StablySorted(old, new, Before(_, _)) ==
    /\ IsPermutation(old, new)
    /\ \A i, j \in 1..Len(new) :
         i < j =>
           /\ ~Before(new[j], new[i])
           /\ ~Before(new[i], new[j]) => Pos(old, new[i]) < Pos(old, new[j])

LowerRank(x, y) == Rank(heap[x].priority) < Rank(heap[y].priority)

DueEarlier(x, y) == Earlier(heap[x].due_date, heap[y].due_date)

\* C10: sort_by_priority leaves tasks a permutation of what it was, in
\* non-decreasing rank (High 1, Medium 2, Low 3, anything else 4), and
\* sort_by_due_date in non-decreasing due date; tasks of equal key keep
\* their relative order.
C10_SortsAreStable ==
    [][/\ (hist'.op = "sort_by_priority" /\ sort_by_priority) =>
            StablySorted(tasks, tasks', LowerRank)
       /\ (hist'.op = "sort_by_due_date" /\ sort_by_due_date) =>
            StablySorted(tasks, tasks', DueEarlier)]_vars

\* a Low task added before a Medium one now stands behind it
C10_Witness ==
    /\ hist = Call("sort_by_priority", "ok")
    /\ tasks = <<2, 1>>
    /\ heap[1].priority = Low
    /\ heap[2].priority = Medium

\* C11: a sort that immediately follows the same sort leaves tasks in the
\* order the first one gave: sort_by_priority after sort_by_priority, and
\* sort_by_due_date after sort_by_due_date.
C11_SortIdempotent ==
    [][/\ (hist.op = "sort_by_priority" /\ sort_by_priority) => tasks' = tasks
       /\ (hist.op = "sort_by_due_date" /\ sort_by_due_date) => tasks' = tasks]_vars

\* a sort has just run over two tasks of equal priority and equal due date,
\* so that a second one finds a tie to keep
C11_Witness ==
    /\ hist.op \in SortNames
    /\ Len(tasks) = 2
    /\ heap[tasks[1]].priority = heap[tasks[2]].priority
    /\ heap[tasks[1]].due_date = heap[tasks[2]].due_date
    /\ raised = "none"

\* C12: show_next_reminder on an empty reminder_queue reports NoReminders
\* and changes nothing; on a non-empty one it takes away the front element
\* and keeps the others in order. Either way tasks, the Task objects (their
\* status with them), undo_stack and tasks.json stay as they were.
C12_ReminderPopsFront ==
    [][(hist'.op = "show_next_reminder" /\ show_next_reminder) =>
         /\ UNCHANGED <<heap, tasks, undo_stack, file, task_counter>>
         /\ reminder_queue = <<>> =>
                hist'.res = "NoReminders" /\ reminder_queue' = <<>>
         /\ reminder_queue # <<>> =>
                /\ hist'.res = "ok"
                /\ Len(reminder_queue') = Len(reminder_queue) - 1
                /\ \A i \in 1..Len(reminder_queue') :
                       reminder_queue'[i] = reminder_queue[i + 1]]_vars

\* two loaded tasks were queued, the second of the file first; one reminder
\* was shown and the first task of the file is what remains
C12_Witness ==
    /\ hist = Call("show_next_reminder", "ok")
    /\ loaded = 2
    /\ reminder_queue = <<1>>
    /\ DueEarlier(2, 1)
    /\ heap[1].status = Pending /\ heap[2].status = Pending

\* C13: in every state every element of reminder_queue is a task that is
\* in tasks.
C13_QueueWithinTasks ==
    \A i \in 1..Len(reminder_queue) : reminder_queue[i] \in Range(tasks)

\* C14: in every state every task in reminder_queue is Pending and due in
\* 3 days or less.
C14_QueuePendingDueSoon ==
    \A i \in 1..Len(reminder_queue) :
        /\ heap[reminder_queue[i]].status = Pending
        /\ toordinal(heap[reminder_queue[i]].due_date) - toordinal(today) <= 3

\* C15: in every state the due dates in reminder_queue do not decrease
\* from front to back.
C15_QueueFirstDueFirst ==
    \A i, j \in 1..Len(reminder_queue) :
        i < j => ~DueEarlier(reminder_queue[j], reminder_queue[i])

\* C16: right after the store is created (load, then rebuild) tasks holds
\* the loaded tasks in file order, and reminder_queue holds exactly those
\* of them that are Pending and due in 3 days or less, each once, by
\* ascending due date, tasks of equal due date in file order.
C16_RebuildAtLoad ==
    (hist.op \in {"init", "restart"} /\ raised = "none") =>
        /\ tasks = [i \in 1..Len(heap) |-> i]
        /\ Len(heap) = Len(file.items)
        /\ \A i \in 1..Len(heap) : heap[i].id = file.items[i].id
        /\ Range(reminder_queue) =
             {r \in 1..Len(heap) :
                  /\ heap[r].status = Pending
                  /\ toordinal(heap[r].due_date) - toordinal(today) <= 3}
        /\ Cardinality(Range(reminder_queue)) = Len(reminder_queue)
        /\ \A i, j \in 1..Len(reminder_queue) :
               i < j =>
                 /\ ~DueEarlier(reminder_queue[j], reminder_queue[i])
                 /\ ~DueEarlier(reminder_queue[i], reminder_queue[j]) =>
                        reminder_queue[i] < reminder_queue[j]

\* a new process has loaded two tasks, the later-due one first in the file,
\* and queued them the other way round
C16_Witness ==
    /\ hist = Call("restart", "ok")
    /\ Len(heap) = 2
    /\ reminder_queue = <<2, 1>>
    /\ DueEarlier(2, 1)

\* a mutating call whose write to tasks.json fails
WriteFails ==
    \E io \in IOOutcomes \ {"ok"} :
        \/ \E n \in MainInputs : add_task(n, io)
        \/ \E id \in TaskIds : mark_task_complete(id, io) \/ delete_task(id, io)
        \/ undo_delete(io)

\* C17: a mutating call whose write fails leaves the Task objects, tasks,
\* undo_stack and reminder_queue as they were before the call, and the
\* failure does not leave the store: no exception reaches the caller.
C17_WriteFailureAllOrNothing ==
    [][(hist'.res = "OSError" /\ WriteFails) =>
         /\ UNCHANGED <<heap, tasks, undo_stack, reminder_queue>>
         /\ raised' = "none"]_vars

\* C18: status is one-way. A task that add_task creates is Pending; a Task
\* object that is Completed stays Completed through every call of its
\* process, whether it stands in tasks or in undo_stack; and when the
\* process ends and the next one loads tasks.json, every task of tasks that
\* was Completed is Completed in the new store.
C18_StatusOneWay ==
    [][IF hist'.op = "restart"
       THEN \A i \in 1..Len(tasks) : \A j \in 1..Len(tasks') :
                (/\ heap[tasks[i]].status = Completed
                 /\ heap'[tasks'[j]].id = heap[tasks[i]].id) =>
                    heap'[tasks'[j]].status = Completed
       ELSE /\ Len(heap') >= Len(heap)
            /\ \A r \in 1..Len(heap) :
                   heap[r].status = Completed => heap'[r].status = Completed
            /\ \A r \in (Len(heap) + 1)..Len(heap') :
                   heap'[r].status = Pending]_vars

\* a task that this run created (its priority is the one typed in) was
\* completed, deleted and restored behind a younger one, and after the
\* restart it is loaded as Completed
C18_Witness ==
    /\ hist = Call("restart", "ok")
    /\ Len(heap) = 2
    /\ heap[1].id > heap[2].id
    /\ heap[1].priority = Urgent /\ heap[2].priority = Urgent
    /\ heap[2].status = Completed
    /\ heap[1].status = Pending

\* C19: the undo stack is last in, first out. A successful delete_task puts
\* the task it removes on top of undo_stack, above the earlier deletions;
\* a successful undo_delete takes the top of undo_stack, the latest
\* deletion not yet restored, appends it at the end of tasks, and leaves
\* the deletions below it, reminder_queue and the Task objects alone.
C19_UndoIsLifo ==
    [][/\ (/\ hist'.op = "delete_task" /\ hist'.res = "ok"
           /\ \E id \in TaskIds : HasId(id) /\ delete_task(id, "ok")) =>
            /\ Len(undo_stack') = Len(undo_stack) + 1
            /\ \A i \in 1..Len(undo_stack) : undo_stack'[i] = undo_stack[i]
            /\ undo_stack'[Len(undo_stack')] \in Range(tasks)
            /\ undo_stack'[Len(undo_stack')] \notin Range(tasks')
       /\ (/\ hist'.op = "undo_delete" /\ hist'.res = "ok"
           /\ undo_stack # <<>> /\ undo_delete("ok")) =>
            /\ Len(tasks') = Len(tasks) + 1
            /\ \A i \in 1..Len(tasks) : tasks'[i] = tasks[i]
            /\ tasks'[Len(tasks')] = undo_stack[Len(undo_stack)]
            /\ Len(undo_stack') = Len(undo_stack) - 1
            /\ \A i \in 1..Len(undo_stack') : undo_stack'[i] = undo_stack[i]
            /\ UNCHANGED <<reminder_queue, heap>>]_vars

\* task 1 was deleted, then task 2, the last task left; one undo_delete has
\* brought back task 2 and task 1 is still on the stack
C19_Witness ==
    /\ hist.op = "undo_delete"
    /\ hist.res = "ok"
    /\ Len(hist.pre) = 1
    /\ tasks = <<2>>
    /\ undo_stack = <<1>>
    /\ Objs(tasks) = hist.pre

\* C20: conservation. In every state of one store every Task object that
\* was loaded or created stands exactly once in tasks or exactly once in
\* undo_stack, never in both; no id occurs twice in tasks, and no id
\* occurs in both tasks and undo_stack.
C20_TasksConserved ==
    /\ \A r \in 1..Len(heap) : Count(tasks, r) + Count(undo_stack, r) = 1
    /\ Range(tasks) \cup Range(undo_stack) = 1..Len(heap)
    /\ \A i, j \in 1..Len(tasks) :
           i # j => heap[tasks[i]].id # heap[tasks[j]].id
    /\ \A i \in 1..Len(tasks) : \A j \in 1..Len(undo_stack) :
           heap[tasks[i]].id # heap[undo_stack[j]].id

\* a loaded task and a created one were both deleted and one of them has
\* been restored
C20_Witness ==
    /\ hist.op = "undo_delete"
    /\ hist.res = "ok"
    /\ loaded = 1
    /\ Len(heap) = 2
    /\ Len(tasks) = 1
    /\ Len(undo_stack) = 1

=============================================================================
